---- MODULE Spec2Model ----
(***************************************************************************)
(* Farfield post-processing helpers of cst_python_api (farfield.py):       *)
(* _validate_common_inputs, get_gain_at_freq and get_axial_ratio_at_freq,  *)
(* together with the external collaborator myCST.Results.getFarField that  *)
(* the two extractors await.                                               *)
(*                                                                         *)
(* Python values are records [t, n, e]: the Python type name t and, for    *)
(* numbers, the decimal value n * 10^e.  Floating-point numbers are         *)
(* records [k, n, e]: k = "fin" for the finite value n * 10^e, "inf" for   *)
(* an infinity of sign n, "nan" for not-a-number.                          *)
(***************************************************************************)
EXTENDS Integers, Sequences, FiniteSets

\* Per operation: pc its position (idle, awaiting the query, ready to resume,
\* done), args the arguments of the call, coro the validator coroutine object,
\* calls the number of getFarField queries issued, issued the last query,
\* response how the query ended, outcome how the operation ended.
\* vrun: a run of the validator as a tool of its own.
VARIABLES pc, args, coro, calls, issued, response, outcome, vrun

vars == <<pc, args, coro, calls, issued, response, outcome, vrun>>

\* The two extractor operations; each is one coroutine.
Procs == {"get_gain_at_freq", "get_axial_ratio_at_freq"}

----------------------------------------------------------------------------
(* Bounds of the model *)

\* Longest result list the collaborator returns.
MaxResults == 2
\* Largest mantissa of a field magnitude the collaborator returns.
MaxMant == 2
\* Largest well-formed port and mode number passed by a caller (2147483647 aside).
MaxIndex == 2

----------------------------------------------------------------------------
(* Python values *)

PyInt(i) == [t |-> "int", n |-> i, e |-> 0]
PyFloat(n, e) == [t |-> "float", n |-> n, e |-> e]
PyBool(b) == [t |-> "bool", n |-> IF b THEN 1 ELSE 0, e |-> 0]
PyStr == [t |-> "str", n |-> 0, e |-> 0]
PyNone == [t |-> "NoneType", n |-> 0, e |-> 0]

\* isinstance(v, classes): bool is a subclass of int.
IsInstance(v, classes) ==
    \/ v.t \in classes
    \/ v.t = "bool" /\ "int" \in classes

\* _validate_common_inputs run to completion: the exception it raises, or "ok".
Raised(kind, msg) == [kind |-> kind, msg |-> msg]

ValidatePortNonNegative(myCST, target_freq, port, mode) ==
    IF myCST = "None"
    THEN Raised("TypeError", "ERROR: myCST object must be provided.")
    ELSE IF ~IsInstance(target_freq, {"float", "int"})
    THEN Raised("TypeError", "ERROR: target_freq must be float or int.")
    ELSE IF ~IsInstance(port, {"int"})
    THEN Raised("TypeError", "ERROR: port must be of type int.")
    ELSE IF port.n < 0
    THEN Raised("ValueError", "ERROR: port must be an integer >= 1.")
    ELSE IF ~IsInstance(mode, {"int"})
    THEN Raised("TypeError", "ERROR: mode must be of type int.")
    ELSE IF mode.n < 0
    THEN Raised("ValueError", "ERROR: mode must be an integer >= 0.")
    ELSE Raised("ok", "")

_validate_common_inputs(myCST, target_freq, port, mode) ==
    IF myCST = "None"
    THEN Raised("TypeError", "ERROR: myCST object must be provided.")
    ELSE IF ~IsInstance(target_freq, {"float", "int"})
    THEN Raised("TypeError", "ERROR: target_freq must be float or int.")
    ELSE IF ~IsInstance(port, {"int"})
    THEN Raised("TypeError", "ERROR: port must be of type int.")
    ELSE IF port.n < 1
    THEN Raised("ValueError", "ERROR: port must be an integer >= 1.")
    ELSE IF ~IsInstance(mode, {"int"})
    THEN Raised("TypeError", "ERROR: mode must be of type int.")
    ELSE IF mode.n < 0
    THEN Raised("ValueError", "ERROR: mode must be an integer >= 0.")
    ELSE Raised("ok", "")

----------------------------------------------------------------------------
(* Floating-point numbers (IEEE double, as Python float and numpy.float64) *)

Abs(i) == IF i < 0 THEN -i ELSE i
Min(i, j) == IF i <= j THEN i ELSE j
Sign(i) == IF i < 0 THEN -1 ELSE 1

RECURSIVE Digits(_)
\* Number of decimal digits of the natural i (0 for 0).
Digits(i) == IF i = 0 THEN 0 ELSE 1 + Digits(i \div 10)

RECURSIVE Norm(_, _)
\* The finite value n * 10^e with trailing zeros of n moved into e.
Norm(n, e) ==
    IF n = 0 THEN [k |-> "fin", n |-> 0, e |-> 0]
    ELSE IF n % 10 = 0 THEN Norm(n \div 10, e + 1)
    ELSE [k |-> "fin", n |-> n, e |-> e]

Fin(n, e) == Norm(n, e)
Inf(sign) == [k |-> "inf", n |-> sign, e |-> 0]
NaN == [k |-> "nan", n |-> 0, e |-> 0]
Zero == Fin(0, 0)

\* x lies in [10^(Order(x)-1), 10^Order(x)) in absolute value (x finite, nonzero).
Order(x) == x.e + Digits(Abs(x.n))

\* A double holds about 17 significant decimal digits: a term more than that many
\* orders of magnitude below the other is lost in a sum.
SignificantDigits == 17
\* A result rounds to an infinity from 2^1024 - 2^970 = 1.7976931348623158079...e308
\* up: a number of order MaxOrder whose digits reach OverflowDigits.
MaxOrder == 309
OverflowDigits == <<1, 7, 9, 7, 6, 9, 3, 1, 3, 4, 8, 6, 2, 3, 1, 5, 8, 0, 7, 9>>
\* A number rounds to 0.0 from 2^-1075 = 2.47032822920623272088...e-324 down: every
\* number of an order below MinOrder does.
MinOrder == -323
\* 10.0 ** x is 0.0 from x = -324 down.
MinPow10 == -324

RECURSIVE CmpStream(_, _, _, _)
\* The digits of the fraction r / d (0 <= r < d), compared with the digits of T from
\* position i on: "gt", "lt" or "eq".
CmpStream(r, d, i, T) ==
    IF i > Len(T) THEN "eq"
    ELSE LET digit == (r * 10) \div d
         IN  IF digit > T[i] THEN "gt"
             ELSE IF digit < T[i] THEN "lt"
             ELSE CmpStream((r * 10) % d, d, i + 1, T)

RECURSIVE CmpWhole(_, _, _, _, _, _)
\* The D digits of the whole number w from position j on, then the digits of the
\* fraction r / d, compared with the digits of T.
CmpWhole(w, D, j, r, d, T) ==
    IF j > D THEN CmpStream(r, d, j, T)
    ELSE LET digit == (w \div 10^(D - j)) % 10
         IN  IF digit > T[j] THEN "gt"
             ELSE IF digit < T[j] THEN "lt"
             ELSE CmpWhole(w, D, j + 1, r, d, T)

RECURSIVE LeadingZeros(_, _)
\* The number of zeros after the decimal point of r / d (0 < r < d).
LeadingZeros(r, d) == IF r * 10 >= d THEN 0 ELSE 1 + LeadingZeros(r * 10, d)

RECURSIVE SkipZeros(_, _)
\* The remainder at which the first nonzero digit of r / d (0 < r < d) is taken.
SkipZeros(r, d) == IF r * 10 >= d THEN r ELSE SkipZeros(r * 10, d)

\* The order of magnitude of (n / d) * 10^e for naturals n, d > 0, as Order has it.
QuotOrder(n, d, e) ==
    IF n \div d > 0 THEN Digits(n \div d) + e ELSE e - LeadingZeros(n, d)

\* The significant digits of n / d compared with the digits of T.
QuotCmp(n, d, T) ==
    IF n \div d > 0
    THEN CmpWhole(n \div d, Digits(n \div d), 1, n % d, d, T)
    ELSE CmpStream(SkipZeros(n, d), d, 1, T)

\* (n / d) * 10^e is too large for a double.
AtLeastMax(n, d, e) ==
    \/ QuotOrder(n, d, e) > MaxOrder
    \/ QuotOrder(n, d, e) = MaxOrder /\ QuotCmp(n, d, OverflowDigits) # "lt"

\* A finite result too large for a double becomes an infinity.
Overflows(x) == x.n # 0 /\ AtLeastMax(Abs(x.n), 1, x.e)

Round(x) == IF Overflows(x) THEN Inf(Sign(x.n)) ELSE x

\* a + b
FAdd(a, b) ==
    IF a.k = "nan" \/ b.k = "nan" THEN NaN
    ELSE IF a.k = "inf" THEN (IF b.k = "inf" /\ b.n # a.n THEN NaN ELSE a)
    ELSE IF b.k = "inf" THEN b
    ELSE IF a.n = 0 THEN b
    ELSE IF b.n = 0 THEN a
    ELSE IF Order(a) - Order(b) > SignificantDigits THEN a
    ELSE IF Order(b) - Order(a) > SignificantDigits THEN b
    ELSE LET m == Min(a.e, b.e)
         IN  Round(Fin(a.n * 10^(a.e - m) + b.n * 10^(b.e - m), m))

FNeg(a) == IF a.k = "nan" THEN NaN ELSE [a EXCEPT !.n = -a.n]

\* a - b
FSub(a, b) == FAdd(a, FNeg(b))

\* a >= b
FGe(a, b) ==
    IF a.k = "nan" \/ b.k = "nan" THEN FALSE
    ELSE IF a = b THEN TRUE
    ELSE FSub(a, b).n >= 0

\* a > b
FGt(a, b) == FGe(a, b) /\ a # b

\* The builtin max(a, b): b when b > a, else a.
PyMax(a, b) == IF FGt(b, a) THEN b ELSE a

\* The integer a whole-valued finite x stands for.  The gain components of the
\* model are multiples of 10 dB, so that every power of ten taken is a whole one.
WholeValue(x) == x.n * 10^x.e

\* 10.0 ** x raises OverflowError when the power exceeds the double range.
Pow10Overflows(x) == WholeValue(x) >= MaxOrder

\* 10.0 ** x for a whole-valued finite x within range; 0.0 below the double range.
Pow10(x) == IF WholeValue(x) <= MinPow10 THEN Zero ELSE Fin(1, WholeValue(x))

\* a / 10.0
DivTen(a) == IF a.k = "fin" THEN Fin(a.n, a.e - 1) ELSE a

----------------------------------------------------------------------------------------------------------------------------------------
(* Division of two doubles.  The operands of a division are the doubles nearest  *)
(* to the decimals, and the quotient is rounded once more.  Both roundings are   *)
(* computed exactly, on naturals of any size held as sequences of limbs (least   *)
(* significant first, <<>> for 0).                                               *)

Max(i, j) == IF i >= j THEN i ELSE j

Limb == 10^3

\* The natural i < Limb^4 as limbs.
Big(i) ==
    IF i = 0 THEN <<>>
    ELSE IF i < Limb THEN <<i>>
    ELSE IF i < Limb^2 THEN <<i % Limb, i \div Limb>>
    ELSE IF i < Limb^3 THEN <<i % Limb, (i \div Limb) % Limb, i \div Limb^2>>
    ELSE <<i % Limb, (i \div Limb) % Limb, (i \div Limb^2) % Limb, i \div Limb^3>>

\* The sequence of the n limbs f[1], ..., f[n].
Limbs(f, n) == SubSeq(f, 1, n)

\* Limb i of a, 0 beyond its ends.
At(a, i) == IF i >= 1 /\ i <= Len(a) THEN a[i] ELSE 0

\* The number of limbs of a without its leading zeros.
Top(a) ==
    IF \A i \in 1..Len(a) : a[i] = 0 THEN 0
    ELSE Len(a) + 1 - (CHOOSE k \in 1..Len(a) :
                          /\ a[Len(a) + 1 - k] # 0
                          /\ \A m \in 1..(k - 1) : a[Len(a) + 1 - m] = 0)

Trim(a) == SubSeq(a, 1, Top(a))

\* Limbs below 2 * Limb made limbs below Limb: a carry enters limb i when the limb
\* below overflows, by itself or by the carry that enters it.
CarryInto(s, i) ==
    \/ At(s, i - 1) >= Limb
    \/ /\ i > 1
       /\ s[i - 1] = Limb - 1
       /\ \E j \in 1..(i - 2) :
             /\ s[j] >= Limb
             /\ \A m \in (j + 1)..(i - 2) : s[m] = Limb - 1

Ripple(s) ==
    Limbs([i \in 1..(Len(s) + 1) |->
              (At(s, i) + (IF CarryInto(s, i) THEN 1 ELSE 0)) % Limb], Len(s) + 1)

\* Limbs below 3 * Limb: their carries moved one limb up.
Carry(s) ==
    Limbs([i \in 1..(Len(s) + 1) |-> (At(s, i) % Limb) + (At(s, i - 1) \div Limb)],
          Len(s) + 1)

\* Column sums below Limb^3: their carries moved one and two limbs up.
Spread(s) ==
    Limbs([i \in 1..(Len(s) + 2) |->
              (At(s, i) % Limb) + ((At(s, i - 1) \div Limb) % Limb)
                  + (At(s, i - 2) \div Limb^2)], Len(s) + 2)

RECURSIVE Column(_, _, _, _, _)
\* The sum of a[j] * b[i + 1 - j] for j in lo..hi.
Column(a, b, i, lo, hi) ==
    IF lo > hi THEN 0
    ELSE IF lo = hi THEN a[lo] * b[i + 1 - lo]
    ELSE Column(a, b, i, lo, (lo + hi) \div 2)
            + Column(a, b, i, (lo + hi) \div 2 + 1, hi)

Columns(a, b) ==
    Limbs([i \in 1..(Len(a) + Len(b)) |->
              Column(a, b, i, Max(1, i + 1 - Len(b)), IF i <= Len(a) THEN i ELSE Len(a))],
          Len(a) + Len(b))

\* a * b
Mul(a, b) ==
    IF Len(a) = 0 \/ Len(b) = 0 THEN <<>>
    ELSE Trim(Ripple(Carry(Spread(Columns(a, b)))))

\* a + b
Add(a, b) ==
    IF Len(a) = 0 THEN b
    ELSE IF Len(b) = 0 THEN a
    ELSE Trim(Ripple(Limbs([i \in 1..Max(Len(a), Len(b)) |-> At(a, i) + At(b, i)],
                           Max(Len(a), Len(b)))))

\* a compared with b, from limb i down: -1, 0 or 1.
CmpAt(a, b, i) == IF At(a, i) < At(b, i) THEN -1 ELSE IF At(a, i) > At(b, i) THEN 1 ELSE 0

CmpFrom(a, b, n) ==
    IF \A i \in 1..n : At(a, i) = At(b, i) THEN 0
    ELSE CmpAt(a, b, n + 1 - (CHOOSE k \in 1..n :
                                 /\ At(a, n + 1 - k) # At(b, n + 1 - k)
                                 /\ \A m \in 1..(k - 1) : At(a, n + 1 - m) = At(b, n + 1 - m)))

\* a compared with b: -1, 0 or 1.
BigCmp(a, b) == CmpFrom(a, b, Max(Len(a), Len(b)))

Square(a) == Mul(a, a)

RECURSIVE Pow2(_)
\* 2^k
Pow2(k) == IF k < 30 THEN Big(2^k) ELSE Mul(Square(Pow2(k \div 2)), Big(2^(k % 2)))

\* 10^e
Pow10Big(e) == Limbs([i \in 1..(e \div 3) |-> 0], e \div 3) \o Big(10^(e % 3))

\* A double has MantissaBits binary digits; its finite nonzero values are m * 2^x
\* with m < 2^MantissaBits and MinExp <= x <= MaxExp.
MantissaBits == 53
MinExp == -1074
MaxExp == 971
\* A mantissa has no more than MantissaLimbs limbs.
MantissaLimbs == 6

\* A double: "zero", "inf", "nan", or "fin" with the magnitude m * 2^x.  The sign
\* is kept apart.
Double(k, m, x) == [k |-> k, m |-> m, x |-> x]

\* A lower estimate of the binary exponent of the leading bit of a number of the
\* decimal order o (log2(10) = 3.321928...).
Log2Estimate(o) == ((o - 1) * 3321928) \div 10^6 - 2

RECURSIVE Fit(_, _, _)
\* The least exponent from x on at which a / b needs no more than MantissaBits
\* binary digits, with the divisor scaled to it.
Fit(a, b, x) ==
    IF BigCmp(a, Mul(b, Pow2(MantissaBits))) < 0 THEN [b |-> b, x |-> x]
    ELSE Fit(a, Mul(b, Big(2)), x + 1)

RECURSIVE Digit(_, _, _, _, _, _)
\* The greatest d in lo..hi with (q + d * Limb^(p-1)) * b <= a, where lo has it.
Digit(a, b, q, p, lo, hi) ==
    IF lo = hi THEN lo
    ELSE IF BigCmp(Mul([q EXCEPT ![p] = (lo + hi + 1) \div 2], b), a) <= 0
    THEN Digit(a, b, q, p, (lo + hi + 1) \div 2, hi)
    ELSE Digit(a, b, q, p, lo, (lo + hi + 1) \div 2 - 1)

RECURSIVE Quotient(_, _, _, _)
\* The whole part of a / b below Limb^p, on top of the limbs q found above p.
Quotient(a, b, q, p) ==
    IF p = 0 \/ Len(q) < p THEN q
    ELSE Quotient(a, b, [q EXCEPT ![p] = Digit(a, b, q, p, 0, Limb - 1)], p - 1)

\* a / b to the nearest whole number, ties to the even one, q its whole part.
RoundEven(a, b, q) ==
    IF BigCmp(Mul(a, Big(2)), Add(Mul(Mul(q, Big(2)), b), b)) + (q[1] % 2) >= 1
    THEN Add(Trim(q), Big(1))
    ELSE Trim(q)

\* The double of mantissa m at exponent x: 0.0 when nothing is left, an infinity
\* from 2^1024 up.
Pack(m, x) ==
    IF Len(m) = 0 THEN Double("zero", <<>>, 0)
    ELSE IF x > MaxExp \/ (x = MaxExp /\ BigCmp(m, Pow2(MantissaBits)) >= 0)
    THEN Double("inf", <<>>, 0)
    ELSE Double("fin", m, x)

Nearest(a, f) ==
    IF f.x > MaxExp THEN Double("inf", <<>>, 0)
    ELSE Pack(RoundEven(a, f.b,
                        Quotient(a, f.b, Limbs([i \in 1..MantissaLimbs |-> 0], MantissaLimbs),
                                 MantissaLimbs)),
              f.x)

\* The double nearest to the magnitude of the decimal x, as float() reads it.
ToDouble(x) ==
    IF x.k # "fin" THEN Double(x.k, <<>>, 0)
    ELSE IF x.n = 0 THEN Double("zero", <<>>, 0)
    ELSE IF Order(x) > MaxOrder THEN Double("inf", <<>>, 0)
    ELSE IF Order(x) < MinOrder THEN Double("zero", <<>>, 0)
    ELSE LET start == Max(Log2Estimate(Order(x)) - (MantissaBits - 1), MinExp)
             a == Mul(Mul(Big(Abs(x.n)), Pow10Big(Max(x.e, 0))), Pow2(Max(-start, 0)))
             b == Mul(Pow10Big(Max(-x.e, 0)), Pow2(Max(start, 0)))
         IN  Nearest(a, Fit(a, b, start))

\* a / b rounds to an infinity: a / b >= 2^1024 - 2^970 = (2^54 - 1) * 2^970.
QuotOverflows(a, b) ==
    LET d == a.x - b.x - (MaxExp - 1)
    IN  /\ d >= 0
        /\ \/ d > 2 * MantissaBits + 1
           \/ BigCmp(Add(Mul(a.m, Pow2(d)), b.m), Mul(b.m, Pow2(MantissaBits + 1))) >= 0

\* a / b rounds to 0.0: a / b <= 2^-1075, half the least positive double.
QuotUnderflows(a, b) ==
    LET u == a.x - b.x - (MinExp - 1)
    IN  /\ u <= MantissaBits + 1
        /\ \/ u < -(MantissaBits + 1)
           \/ BigCmp(Mul(a.m, Pow2(Max(u, 0))), Mul(b.m, Pow2(Max(-u, 0)))) <= 0

\* Every decimal from 10^MinNormalOrder up that does not round to an infinity is
\* in the range of the normal doubles (the least is 2.2250738585072014e-308): the
\* double nearest to it is within one part in 2^MantissaBits of it.
MinNormalOrder == -307

InNormalRange(x) ==
    x.k = "fin" /\ x.n # 0 /\ Order(x) > MinNormalOrder /\ ~Overflows(x)

\* The kind of the double a nearest to x: "zero", "fin", "inf" or "nan".
Kind(x, a) == IF InNormalRange(x) THEN "fin" ELSE a.k

\* The magnitude of the quotient of the finite nonzero doubles a and b nearest to
\* num and den: "inf", "zero" or "fin".  For decimals in the range of the normal
\* doubles the exact quotient lies between 10^(gap-1) and 10^(gap+1), gap the
\* difference of their orders, and the quotient of the doubles within three parts
\* in 2^MantissaBits of it: the doubles are taken where these two powers of ten do
\* not decide.
QuotMagnitude(num, den, a, b) ==
    LET gap == Order(num) - Order(den)
        normal == InNormalRange(num) /\ InNormalRange(den)
    IN  IF normal /\ gap - 1 >= MaxOrder THEN "inf"
        ELSE IF normal /\ gap + 1 < MinOrder THEN "zero"
        ELSE IF normal /\ gap - 1 >= MinNormalOrder /\ gap + 1 < MaxOrder THEN "fin"
        ELSE IF QuotOverflows(a, b) THEN "inf"
        ELSE IF QuotUnderflows(a, b) THEN "zero"
        ELSE "fin"

\* The class of a quotient of the given kinds of operands, magnitude and sign.
QuotKind(ka, kb, magnitude, positive) ==
    IF kb = "zero" THEN "zerodiv"
    ELSE IF ka = "nan" \/ kb = "nan" THEN "nan"
    ELSE IF ka = "inf" /\ kb = "inf" THEN "nan"
    ELSE IF ka = "inf" THEN (IF positive THEN "inf" ELSE "ninf")
    ELSE IF kb = "inf" \/ ka = "zero" THEN "zero"
    ELSE IF magnitude = "inf" THEN (IF positive THEN "inf" ELSE "ninf")
    ELSE IF magnitude = "zero" THEN "zero"
    ELSE IF positive THEN "pos" ELSE "neg"

\* The class of num / den for the doubles a and b nearest to them.
DoubleQuot(num, den, a, b) ==
    QuotKind(Kind(num, a), Kind(den, b), QuotMagnitude(num, den, a, b),
             num.n * Sign(den.n) > 0)

\* The class of the float quotient num / den: "zerodiv" (ZeroDivisionError, raised
\* for a zero divisor before anything else), "nan", "zero", "pos", "neg", "inf" or
\* "ninf".
QuotClass(num, den) == DoubleQuot(num, den, ToDouble(num), ToDouble(den))

\* numpy.log10 of a float of the given class, as the class of the result:
\* "fin", "inf", "ninf" or "nan".
Log10Class(c) ==
    CASE c = "pos" -> "fin"
      [] c = "zero" -> "ninf"
      [] c = "inf" -> "inf"
      [] OTHER -> "nan"

\* The class of a float as QuotClass names it.
ClassOf(x) ==
    IF x.k = "nan" THEN "nan"
    ELSE IF x.k = "inf" THEN (IF x.n > 0 THEN "inf" ELSE "ninf")
    ELSE IF x.n = 0 THEN "zero"
    ELSE IF x.n > 0 THEN "pos" ELSE "neg"

\* A returned metric scale * log10(num / den): its class k and the two operands.
Metric(k, scale, num, den) == [k |-> k, scale |-> scale, num |-> num, den |-> den]
NoMetric == Metric("none", 0, Zero, Zero)

----------------------------------------------------------------------------
(* Outcomes of an operation *)

\* kind: "none" while running, "return" with a value val, or the exception class
\* that escapes, with its message msg followed by the interpolated text detail.
Result(kind, msg, detail, val) == [kind |-> kind, msg |-> msg, detail |-> detail, val |-> val]
NoOutcome == Result("none", "", "", NoMetric)
Raise(kind, msg, detail) == Result(kind, msg, detail, NoMetric)
Return(val) == Result("return", "", "", val)

MsgComError == "ERROR: CST failed to retrieve farfield data. Details: "
MsgUnexpected == "ERROR: Unexpected failure retrieving farfield results. "
MsgIncomplete == "ERROR: Farfield results are empty or incomplete."
MsgGainParse == "ERROR: Could not extract theta/phi values from CST farfield."
MsgArParse == "ERROR: Could not extract circular components from CST farfield."

----------------------------------------------------------------------------
(* The collaborator myCST.Results.getFarField *)

\* An exception raised by the query.  cls "com_error": strerror is its text and
\* excepinfo is "tuple" (exception info attached, description at index 2), "None"
\* (attribute present, no exception info) or "absent" (no such attribute).
\* cls "Exception": any other exception, strerror is str(err).
Error(cls, strerror, excepinfo, description) ==
    [cls |-> cls, strerror |-> strerror, excepinfo |-> excepinfo, description |-> description]
NoError == Error("none", "", "absent", "")

Errors ==
    { Error("com_error", "Exception occurred.", "tuple", "No farfield monitor"),
      Error("com_error", "Server execution failed", "None", ""),
      Error("com_error", "Call was rejected by callee", "absent", ""),
      Error("Exception", "project is closed", "absent", "") }

\* The text that says what went wrong in the collaborator.
DiagnosticText(err) ==
    IF err.cls = "com_error" /\ err.excepinfo = "tuple" THEN err.description ELSE err.strerror

\* An element of the returned list: a number ("num": a scalar or an array of size
\* one), an array of several elements ("arr"), or a string that is no number ("text").
Item(kind, x) == [kind |-> kind, x |-> x]
Unparsable == { Item("arr", Zero), Item("text", Zero) }

\* Realised gain components in dB (linearScale = False).
GainValues == { Fin(-3300, 0), Fin(-10, 0), Fin(0, 0), Fin(10, 0), Fin(20, 0), Fin(3090, 0) }

\* Field magnitudes in linear scale (linearScale = True), and one negative value.
\* Two of them are within 8 or more than 17 orders of magnitude of each other.
FieldExponents == { -301, 0, 8, 307 }
FieldValues ==
    { Fin(m, e) : m \in 0..MaxMant, e \in FieldExponents }
        \cup { Fin(1, 308), Fin(-1, 0) }

\* How a query ends: how = "raise" with err, or "return" with the list items
\* (isnone: the value None instead of a list).
Raises(err) == [how |-> "raise", err |-> err, isnone |-> FALSE, items |-> <<>>]
Returns(items) == [how |-> "return", err |-> NoError, isnone |-> FALSE, items |-> items]
ReturnsNone == [how |-> "return", err |-> NoError, isnone |-> TRUE, items |-> <<>>]
NoResponse == [how |-> "pending", err |-> NoError, isnone |-> FALSE, items |-> <<>>]

Lists(S, n) == UNION { [1..k -> S] : k \in 0..n }

----------------------------------------------------------------------------
(* get_gain_at_freq and get_axial_ratio_at_freq, after the awaited query ended *)

\* except com_error / except Exception around the awaited query.
QueryFailed(err) ==
    IF err.cls = "com_error"
    THEN IF err.excepinfo = "None"
         THEN Raise("TypeError", "'NoneType' object is not subscriptable", "")
         ELSE Raise("RuntimeError", MsgComError,
                    IF err.excepinfo = "tuple" THEN err.description ELSE "")
    ELSE Raise("RuntimeError", MsgUnexpected, err.strerror)

\* not farfield_results or len(farfield_results) < 2
IncompleteBelowOne(resp) == resp.isnone \/ Len(resp.items) = 0 \/ Len(resp.items) < 1

Incomplete(resp) == resp.isnone \/ Len(resp.items) = 0 \/ Len(resp.items) < 2

\* float(np.asarray(x).item()) raises for x
ParseFails(item) == item.kind # "num"

\* 10.0 ** (theta_component / 10.0) + 10.0 ** (phi_component / 10.0)
GainLinearPhiUnscaled(theta_component, phi_component) ==
    FAdd(Pow10(DivTen(theta_component)), Pow10(phi_component))

GainLinear(theta_component, phi_component) ==
    FAdd(Pow10(DivTen(theta_component)), Pow10(DivTen(phi_component)))

\* gain_dBi = 10.0 * np.log10(...)
GainReduce(theta_component, phi_component) ==
    IF Pow10Overflows(DivTen(theta_component)) \/ Pow10Overflows(DivTen(phi_component))
    THEN Raise("OverflowError", "(34, 'Numerical result out of range')", "")
    ELSE LET linear == GainLinear(theta_component, phi_component)
         IN  Return(Metric(Log10Class(ClassOf(linear)), 10, linear, Fin(1, 0)))

\* The floor of the axial-ratio denominator, 1e-300.
Epsilon == Fin(1, -300)

\* ar_dB = 20.0 * np.log10((emax + emin) / max(emax - emin, 1e-300))
AxialRatioReduce(right, left) ==
    LET emax == IF FGe(right, left) THEN right ELSE left
        emin == IF FGe(right, left) THEN left ELSE right
        numerator == FAdd(emax, emin)
        denominator == PyMax(FSub(emax, emin), Epsilon)
        ar_linear == QuotClass(numerator, denominator)
    IN  IF ar_linear = "zerodiv"
        THEN Raise("ZeroDivisionError", "float division by zero", "")
        ELSE Return(Metric(Log10Class(ar_linear), 20, numerator, denominator))

\* theta_component / phi_component (right / left) cannot be extracted: indexing
\* past the end and a failed conversion are both caught by the parsing guard.
ExtractFails(resp) ==
    \E i \in 1..2 : i > Len(resp.items) \/ ParseFails(resp.items[i])

\* The rest of an extractor once its query has ended with resp.
Finish(self, resp) ==
    IF resp.how = "raise" THEN QueryFailed(resp.err)
    ELSE IF Incomplete(resp) THEN Raise("RuntimeError", MsgIncomplete, "")
    ELSE IF ExtractFails(resp)
    THEN Raise("RuntimeError",
               IF self = "get_gain_at_freq" THEN MsgGainParse ELSE MsgArParse, "")
    ELSE IF self = "get_gain_at_freq"
    THEN GainReduce(resp.items[1].x, resp.items[2].x)
    ELSE AxialRatioReduce(resp.items[1].x, resp.items[2].x)

----------------------------------------------------------------------------
(* State *)

\* The arguments of a call.
Call(myCST, target_freq, port, mode) ==
    [myCST |-> myCST, target_freq |-> target_freq, port |-> port, mode |-> mode]
NoCall == Call("unset", PyNone, PyNone, PyNone)

\* The keyword arguments of an issued getFarField query.
Query(a, plotMode, linearScale) ==
    [freq |-> a.target_freq, port |-> a.port, mode |-> a.mode,
     plotMode |-> plotMode, linearScale |-> linearScale]
NoQuery == Query(NoCall, "none", FALSE)

QueryOf(self, a) ==
    IF self = "get_gain_at_freq"
    THEN Query(a, "realized gain", FALSE)
    ELSE Query(a, "efield", TRUE)

\* A run of the validator as a tool of its own: its arguments and what it raised.
NoRun == [a |-> NoCall, raised |-> Raised("none", "")]

TypeOK ==
    /\ pc \in [Procs -> {"idle", "awaiting", "ready", "done"}]
    /\ coro \in [Procs -> {"none", "never_awaited"}]
    /\ calls \in [Procs -> Nat]
    /\ DOMAIN args = Procs /\ DOMAIN issued = Procs
    /\ DOMAIN response = Procs /\ DOMAIN outcome = Procs

Init ==
    /\ pc = [p \in Procs |-> "idle"]
    /\ args = [p \in Procs |-> NoCall]
    /\ coro = [p \in Procs |-> "none"]
    /\ calls = [p \in Procs |-> 0]
    /\ issued = [p \in Procs |-> NoQuery]
    /\ response = [p \in Procs |-> NoResponse]
    /\ outcome = [p \in Procs |-> NoOutcome]
    /\ vrun = NoRun

----------------------------------------------------------------------------
(* Steps of an extractor *)

\* The extractor neither loops nor retries: a query that ended is never reissued.
ReissuesOnFailure(resp) == resp.how = "raise"

Reissues(resp) == FALSE

\* What the coroutine resumes with: the result of the query it awaits.
OtherProc(self) == CHOOSE p \in Procs : p # self
AwaitedResultShared(self) ==
    IF response[OtherProc(self)].how # "pending" THEN response[OtherProc(self)]
    ELSE response[self]

AwaitedResult(self) == response[self]

\* From the call to the await.  The validator coroutine is created and never
\* awaited, so its body does not run.  With myCST = None the attribute lookup
\* raises AttributeError inside the try block; otherwise the query is issued.
InvokeOp(self, a) ==
    /\ pc[self] = "idle"
    /\ args' = [args EXCEPT ![self] = a]
    /\ coro' = [coro EXCEPT ![self] = "never_awaited"]
    /\ IF a.myCST = "None"
       THEN /\ outcome' = [outcome EXCEPT ![self] =
                   Raise("RuntimeError", MsgUnexpected,
                         "'NoneType' object has no attribute 'Results'")]
            /\ pc' = [pc EXCEPT ![self] = "done"]
            /\ UNCHANGED <<calls, issued>>
       ELSE /\ calls' = [calls EXCEPT ![self] = @ + 1]
            /\ issued' = [issued EXCEPT ![self] = QueryOf(self, a)]
            /\ pc' = [pc EXCEPT ![self] = "awaiting"]
            /\ UNCHANGED outcome
    /\ UNCHANGED <<response, vrun>>

\* The collaborator ends the query of self with resp.
CompleteOp(self, resp) ==
    /\ pc[self] = "awaiting"
    /\ response' = [response EXCEPT ![self] = resp]
    /\ pc' = [pc EXCEPT ![self] = "ready"]
    /\ UNCHANGED <<args, coro, calls, issued, outcome, vrun>>

\* The coroutine resumes after the await and runs to its end.
ResumeOp(self) ==
    /\ pc[self] = "ready"
    /\ IF Reissues(AwaitedResult(self))
       THEN /\ calls' = [calls EXCEPT ![self] = @ + 1]
            /\ response' = [response EXCEPT ![self] = NoResponse]
            /\ pc' = [pc EXCEPT ![self] = "awaiting"]
            /\ UNCHANGED outcome
       ELSE /\ outcome' = [outcome EXCEPT ![self] = Finish(self, AwaitedResult(self))]
            /\ pc' = [pc EXCEPT ![self] = "done"]
            /\ UNCHANGED <<calls, response>>
    /\ UNCHANGED <<args, coro, issued, vrun>>

\* The caller takes the outcome; the coroutine and its locals are gone.
CollectOp(self) ==
    /\ pc[self] = "done"
    /\ pc' = [pc EXCEPT ![self] = "idle"]
    /\ args' = [args EXCEPT ![self] = NoCall]
    /\ coro' = [coro EXCEPT ![self] = "none"]
    /\ calls' = [calls EXCEPT ![self] = 0]
    /\ issued' = [issued EXCEPT ![self] = NoQuery]
    /\ response' = [response EXCEPT ![self] = NoResponse]
    /\ outcome' = [outcome EXCEPT ![self] = NoOutcome]
    /\ UNCHANGED vrun

AllIdle == \A p \in Procs : pc[p] = "idle"

----------------------------------------------------------------------------
(* Spec: a caller that awaits each operation before starting the next, with   *)
(* arguments of every kind                                                  *)

Contexts == { "None", "CST" }
Freqs == { PyFloat(868, -3), PyInt(2), PyInt(0), PyFloat(-15, -1), PyStr }
Ports == { PyInt(i) : i \in -1..MaxIndex } \cup { PyFloat(1, 0), PyStr }
Modes == { PyInt(i) : i \in -1..MaxIndex } \cup { PyStr }
Calls == { Call(c, f, p, m) : c \in Contexts, f \in Freqs, p \in Ports, m \in Modes }

PlainItems == { Item("num", Fin(0, 0)), Item("num", Fin(10, 0)), Item("text", Zero) }
Responses ==
    { Raises(err) : err \in Errors } \cup { ReturnsNone }
        \cup { Returns(l) : l \in Lists(PlainItems, MaxResults) }

Invoke == \E self \in Procs, a \in Calls : AllIdle /\ InvokeOp(self, a)
Complete == \E self \in Procs, resp \in Responses : CompleteOp(self, resp)
Resume == \E self \in Procs : ResumeOp(self)
Collect == \E self \in Procs : CollectOp(self)

Next == Invoke \/ Complete \/ Resume \/ Collect

Spec == Init /\ [][Next]_vars

----------------------------------------------------------------------------
(* SpecReduce: default arguments, every list of measured components         *)

DefaultCall == Call("CST", PyFloat(868, -3), PyInt(1), PyInt(0))

MeasuredItems(self) ==
    { Item("num", x) :
        x \in IF self = "get_gain_at_freq" THEN GainValues ELSE FieldValues }
        \cup Unparsable

InvokeDefault == \E self \in Procs : AllIdle /\ InvokeOp(self, DefaultCall)
CompleteMeasured ==
    \E self \in Procs :
        \E l \in Lists(MeasuredItems(self), MaxResults) : CompleteOp(self, Returns(l))

NextReduce == InvokeDefault \/ CompleteMeasured \/ Resume \/ Collect

SpecReduce == Init /\ [][NextReduce]_vars

----------------------------------------------------------------------------
(* SpecGather: both operations in flight at once, for different frequencies *)

GatherCalls(self) ==
    IF self = "get_gain_at_freq"
    THEN { Call("CST", PyFloat(868, -3), PyInt(1), PyInt(0)),
           Call("CST", PyFloat(915, -3), PyInt(1), PyInt(0)) }
    ELSE { Call("CST", PyFloat(2450, -3), PyInt(1), PyInt(0)),
           Call("CST", PyInt(5), PyInt(1), PyInt(0)) }

GatherItems(self) ==
    IF self = "get_gain_at_freq"
    THEN { Item("num", Fin(0, 0)), Item("num", Fin(10, 0)) }
    ELSE { Item("num", Fin(10, 0)), Item("num", Fin(20, 0)) }

GatherResponses(self) ==
    { Raises(Error("Exception", "project is closed", "absent", "")) }
        \cup { Returns(l) : l \in [1..2 -> GatherItems(self)] }

InvokeGather == \E self \in Procs : \E a \in GatherCalls(self) : InvokeOp(self, a)
CompleteGather ==
    \E self \in Procs : \E resp \in GatherResponses(self) : CompleteOp(self, resp)

NextGather == InvokeGather \/ CompleteGather \/ Resume \/ Collect

SpecGather == Init /\ [][NextGather]_vars

----------------------------------------------------------------------------
(* SpecValidator: _validate_common_inputs awaited on its own, as the tool    *)
(* the server registers                                                     *)

ToolFreqs ==
    { PyFloat(868, -3), PyInt(2), PyFloat(-15, -1), PyBool(TRUE), PyStr, PyNone }
ToolIndexes ==
    { PyInt(i) : i \in -2..MaxIndex }
        \cup { PyInt(2147483647), PyFloat(1, 0), PyBool(TRUE), PyBool(FALSE), PyStr, PyNone }
ToolCalls ==
    { Call(c, f, p, m) : c \in Contexts, f \in ToolFreqs, p \in ToolIndexes, m \in ToolIndexes }

\* The tool is awaited: its body runs to completion.
RunValidator ==
    /\ vrun = NoRun
    /\ \E a \in ToolCalls :
          vrun' = [a |-> a,
                   raised |-> _validate_common_inputs(a.myCST, a.target_freq, a.port, a.mode)]
    /\ UNCHANGED <<pc, args, coro, calls, issued, response, outcome>>

\* The caller takes what the validator raised.
CollectValidator ==
    /\ vrun # NoRun
    /\ vrun' = NoRun
    /\ UNCHANGED <<pc, args, coro, calls, issued, response, outcome>>

NextValidator == RunValidator \/ CollectValidator

SpecValidator == Init /\ [][NextValidator]_vars

----------------------------------------------------------------------------
(* Properties *)

Started(p) == pc[p] # "idle"
Done(p) == pc[p] = "done"

\* What the validator says of the arguments of p's call.
Verdict(p) ==
    _validate_common_inputs(args[p].myCST, args[p].target_freq, args[p].port, args[p].mode)

\* The arguments of p's call have a non-null context and the validator rejects them.
RejectedArguments(p) ==
    /\ Started(p)
    /\ args[p].myCST = "CST"
    /\ Verdict(p).kind # "ok"

\* C1: an operation called with a non-null context and an argument the validator
\* rejects ends at once with the validator's error (TypeError for a type mismatch,
\* ValueError for a range violation) and issues no getFarField query.
C1_RejectedBeforeQuery ==
    \A p \in Procs :
        RejectedArguments(p) =>
            /\ Done(p)
            /\ calls[p] = 0
            /\ outcome[p].kind = Verdict(p).kind
            /\ outcome[p].msg = Verdict(p).msg

\* C2: with a null context each operation fails with the TypeError "context must
\* be provided", whatever target_freq, port and mode are; never with a
\* RuntimeError and never with a returned value.
C2_NullContextTypeError ==
    \A p \in Procs :
        (Started(p) /\ args[p].myCST = "None") =>
            /\ Done(p)
            /\ outcome[p].kind = "TypeError"

\* C3: when the query raises (a COM error with or without exception info, or any
\* other exception) the operation ends with a RuntimeError whose message holds
\* the underlying diagnostic text.
C3_FailureWrapped ==
    \A p \in Procs :
        (Done(p) /\ response[p].how = "raise") =>
            /\ outcome[p].kind = "RuntimeError"
            /\ outcome[p].detail = DiagnosticText(response[p].err)

\* The query of p returned fewer than two results.
FewerThanTwo(p) ==
    /\ response[p].how = "return"
    /\ response[p].isnone \/ Len(response[p].items) < 2

\* C4: when the query returns fewer than two results the operation ends with the
\* incomplete-result RuntimeError: not with an error from indexing past the end
\* and not with a value.
C4_IncompleteResult ==
    \A p \in Procs :
        (Done(p) /\ FewerThanTwo(p)) =>
            outcome[p] = Raise("RuntimeError", MsgIncomplete, "")

C4_Witness ==
    \E p \in Procs :
        /\ Done(p)
        /\ response[p].how = "return"
        /\ Len(response[p].items) = 1
        /\ outcome[p].msg = MsgIncomplete

\* The query of p failed, returned an incomplete result or returned values that
\* cannot be parsed.
QueryUnusable(p) ==
    \/ response[p].how = "raise"
    \/ FewerThanTwo(p)
    \/ response[p].how = "return" /\ ExtractFails(response[p])

\* C5: an operation issues at most one getFarField query; after the query failed
\* or gave an unusable result the operation ends with an error, without a second
\* query.
C5_AtMostOneQuery ==
    \A p \in Procs :
        /\ calls[p] <= 1
        /\ (Done(p) /\ QueryUnusable(p)) =>
               /\ outcome[p].kind \notin {"none", "return"}
               /\ calls[p] = 1

C5_Witness ==
    \E p \in Procs :
        /\ Done(p)
        /\ calls[p] = 1
        /\ response[p].how = "raise"
        /\ outcome[p].kind = "RuntimeError"

\* The value of a Python number is strictly positive / at least lo.
IsNumber(v) == v.t \in {"int", "float", "bool"}
IsInteger(v) == v.t \in {"int", "bool"}
Positive(v) == IsNumber(v) /\ v.n > 0
AtLeast(v, lo) == IsInteger(v) /\ v.n >= lo

\* C7: every issued query has target frequency > 0, port >= 1 and mode >= 0: a
\* call with target_freq <= 0 is rejected before getFarField.
C7_IssuedQueriesAreValidRequests ==
    \A p \in Procs :
        calls[p] > 0 =>
            /\ Positive(issued[p].freq)
            /\ AtLeast(issued[p].port, 1)
            /\ AtLeast(issued[p].mode, 0)

\* Both components of the result are finite magnitudes >= 0.
Magnitude(item) == item.kind = "num" /\ item.x.k = "fin" /\ item.x.n >= 0

\* C8: for every pair of non-negative magnitudes (right, left), equal ones and
\* zeros included, get_axial_ratio_at_freq returns a finite value.
C8_AxialRatioFinite ==
    LET p == "get_axial_ratio_at_freq" IN
        (/\ Done(p)
         /\ response[p].how = "return"
         /\ Len(response[p].items) >= 2
         /\ Magnitude(response[p].items[1])
         /\ Magnitude(response[p].items[2])) =>
            /\ outcome[p].kind = "return"
            /\ outcome[p].val.k = "fin"

\* The response with its first two components exchanged.
Swapped(resp) ==
    [resp EXCEPT !.items =
        [i \in DOMAIN resp.items |->
            IF i = 1 THEN resp.items[2] ELSE IF i = 2 THEN resp.items[1] ELSE resp.items[i]]]

\* The query of the gain operation returned two numbers.
GainComponents ==
    LET p == "get_gain_at_freq" IN
        /\ Done(p)
        /\ response[p].how = "return"
        /\ Len(response[p].items) >= 2
        /\ response[p].items[1].kind = "num"
        /\ response[p].items[2].kind = "num"

\* C10: the gain is symmetric in its two components: get_gain_at_freq on the
\* response (g_theta, g_phi) ends as it does on (g_phi, g_theta).
C10_GainSymmetric ==
    GainComponents =>
        outcome["get_gain_at_freq"] =
            Finish("get_gain_at_freq", Swapped(response["get_gain_at_freq"]))

C10_Witness ==
    /\ GainComponents
    /\ response["get_gain_at_freq"].items[1] # response["get_gain_at_freq"].items[2]
    /\ outcome["get_gain_at_freq"].kind = "return"
    /\ outcome["get_gain_at_freq"].val.k = "fin"
    /\ outcome["get_gain_at_freq"].val.num = Fin(11, 0)

\* Everything an operation holds.
Local(p) == <<pc[p], args[p], coro[p], calls[p], issued[p], response[p], outcome[p]>>

\* A finished operation ends as its own query's response decides.
OwnResult == \A p \in Procs : Done(p) => outcome[p] = Finish(p, response[p])

\* A step of one operation leaves everything the other holds as it was.
Isolated == \E p \in Procs : \A q \in Procs \ {p} : Local(q)' = Local(q)

\* C6: with a gain and an axial-ratio operation for different frequencies in
\* flight at once, under every interleaving and completion order each returns
\* the value computed from the response to its own query, and no step of one
\* touches the state of the other.
C6_Independent == [](OwnResult) /\ [][Isolated]_vars

C6_Witness ==
    /\ Done("get_gain_at_freq")
    /\ outcome["get_gain_at_freq"].kind = "return"
    /\ pc["get_axial_ratio_at_freq"] = "ready"
    /\ response["get_axial_ratio_at_freq"].how = "return"
    /\ response["get_axial_ratio_at_freq"] # response["get_gain_at_freq"]
    /\ args["get_axial_ratio_at_freq"].target_freq # args["get_gain_at_freq"].target_freq

\* The validator's checks in order: whether the arguments violate each, and the
\* error it stands for.  A Python bool is an int, so it counts as a number and
\* as an integer (True = 1, False = 0).
Check(violated, kind) == [violated |-> violated, kind |-> kind]
ChecksInOrder(a) ==
    << Check(a.myCST = "None", "TypeError"),
       Check(~IsNumber(a.target_freq), "TypeError"),
       Check(~IsInteger(a.port), "TypeError"),
       Check(IsInteger(a.port) /\ a.port.n < 1, "ValueError"),
       Check(~IsInteger(a.mode), "TypeError"),
       Check(IsInteger(a.mode) /\ a.mode.n < 0, "ValueError") >>
CheckMessages ==
    << "ERROR: myCST object must be provided.",
       "ERROR: target_freq must be float or int.",
       "ERROR: port must be of type int.",
       "ERROR: port must be an integer >= 1.",
       "ERROR: mode must be of type int.",
       "ERROR: mode must be an integer >= 0." >>

Accepted(a) ==
    /\ a.myCST # "None"
    /\ IsNumber(a.target_freq)
    /\ AtLeast(a.port, 1)
    /\ AtLeast(a.mode, 0)

\* C9: the validator, run to completion, accepts silently exactly when the context
\* is non-null, target_freq is a number, port is an integer >= 1 and mode is an
\* integer >= 0 (of any magnitude); otherwise it raises the error of the first
\* violated check in the order context, target_freq type, port type, port range,
\* mode type, mode range.
C9_ValidatorContract ==
    vrun # NoRun =>
        LET checks == ChecksInOrder(vrun.a)
            bad == { i \in DOMAIN checks : checks[i].violated }
        IN  /\ (vrun.raised.kind = "ok") <=> Accepted(vrun.a)
            /\ bad # {} =>
                   LET first == CHOOSE i \in bad : \A j \in bad : i <= j
                   IN  vrun.raised = Raised(checks[first].kind, CheckMessages[first])

C9_Witness ==
    /\ vrun.a.myCST = "CST"
    /\ IsNumber(vrun.a.target_freq)
    /\ vrun.a.port = PyInt(0)
    /\ vrun.a.mode.t = "str"
    /\ vrun.raised = Raised("ValueError", "ERROR: port must be an integer >= 1.")

====
